---- MODULE Spec2Model ----
(***************************************************************************)
(* Conway's Game of Life: the simulation engine (src/js/game-of-life.js),   *)
(* the canvas renderer (src/unnamed/part_001), the controller callbacks    *)
(* that drive both (src/js/controls.js) and the start of the page          *)
(* (src/unnamed/part_000).                                                 *)
(*                                                                         *)
(* The two grid buffers are JavaScript arrays, i.e. heap objects held by   *)
(* reference.  heap maps an object identity to the array's contents;       *)
(* currentGrid, nextGrid and snapshot hold object identities.              *)
(***************************************************************************)
EXTENDS Integers, Sequences, FiniteSets, TLC

\* Grid dimensions handed to the constructor (scaled down), and the cap on
\* the generation counter.
Width == 3
Height == 3
MaxGen == 2
\* Cap on the number of calls in one run, and on the live cells of the
\* fields a single call is tried on.
MaxOps == 4
MaxLive == 3
\* Caps on the callbacks of one run of the page and on its clock, in
\* milliseconds.
MaxCallbacks == 3
MaxTime == 300

\* Constants of the renderer and of the controller.
MinCellSize == 4
MaxCellSize == 20
GridCellSize == 6
InitialCellSize == 10
InitialSpeed == 50
MinSpeed == 50
MaxSpeed == 2000
HighlightDelay == 50
ResizeDelay == 250
ClearDelay == 100
RandomizeDelay == 50
LoadDelay == 150
RenderDelay == 10
MinSetCellSize == 1
MaxSetCellSize == 50

VARIABLES
    heap,         \* object identity -> array contents
    currentGrid,  \* this.currentGrid (a reference)
    nextGrid,     \* this.nextGrid (a reference)
    generation,   \* this.generation
    snapshot,     \* the reference last returned by getGridState(), or "none"
    ret,          \* the value returned by the last query
    controls,     \* GameControls: isRunning, animationId, animationSpeed, lastStepTime,
                  \*               resizeTimeout
    renderer,     \* CanvasRenderer: cellSize, showGrid, offsetX, offsetY, logicalWidth,
                  \*                 logicalHeight, and its canvas.width, canvas.height
    window,       \* the viewport: innerWidth, innerHeight, devicePixelRatio
    canvas,       \* what the canvas shows: the cells painted live by the latest
                  \* render() and the cell highlighted on top of them (<< >>: none)
    browser,      \* the event loop: the clock, the requested animation frames
                  \*                 and the timeouts that have not fired yet
    lastOp,       \* history: the call that produced this state, with its arguments
    pre,          \* history: the field and the generation counter before that call
    hist,         \* history: the fields before each of the latest successive step() calls
    sinceReset,   \* history: step() calls completed since the last construction,
                  \*          clear(), randomize() or loadPattern()
    taken,        \* history: the field at the moment getGridState() was last called
    advanced,     \* history: the frame timestamp at which the animation loop last
                  \*          advanced the engine, -1 before its first advance
    ops           \* history: number of calls made so far

engine == <<heap, currentGrid, nextGrid, generation>>
ui == <<controls, renderer, window, canvas, browser>>
vars == <<heap, currentGrid, nextGrid, generation, snapshot, ret,
          controls, renderer, window, canvas, browser,
          lastOp, pre, hist, sinceReset, taken, advanced, ops>>

----------------------------------------------------------------------------
\* Flat arrays of Width*Height booleans, index = y * width + x.

Cells == 0..(Width * Height - 1)
Field == [Cells -> BOOLEAN]
AllDead == [i \in Cells |-> FALSE]
Refs == {"A", "B", "S"}
Unallocated == << >>

\* An index that counts down the columns instead of along the rows.
getIndexColumnMajor(x, y) == x * Height + y

getIndex(x, y) == y * Width + x

\* getCell without the column test: a column outside the grid then indexes
\* the neighbouring row of the flat array (undefined past its end).
getCellNoColumnTest(h, cur, x, y) ==
    IF y < 0 \/ y >= Height \/ getIndex(x, y) \notin Cells
    THEN FALSE
    ELSE h[cur][getIndex(x, y)]

getCell(h, cur, x, y) ==
    IF x < 0 \/ x >= Width \/ y < 0 \/ y >= Height
    THEN FALSE
    ELSE h[cur][getIndex(x, y)]

Offsets == {d \in (-1..1) \X (-1..1) : ~(d[1] = 0 /\ d[2] = 0)}

\* countNeighbors without the "skip the cell itself" test.
countNeighborsWithSelf(h, cur, x, y) ==
    Cardinality({d \in (-1..1) \X (-1..1) : getCell(h, cur, x + d[1], y + d[2])})

countNeighbors(h, cur, x, y) ==
    Cardinality({d \in Offsets : getCell(h, cur, x + d[1], y + d[2])})

\* The rule with survival on exactly 3 neighbours only.
nextStateSurvive3(h, cur, x, y) ==
    countNeighbors(h, cur, x, y) = 3

nextState(h, cur, x, y) ==
    LET neighbors == countNeighbors(h, cur, x, y)
        currentlyAlive == getCell(h, cur, x, y)
    IN  IF currentlyAlive
        THEN neighbors \in {2, 3}
        ELSE neighbors = 3

\* The loops of step() writing into the array they read.
RECURSIVE stepLoopInPlace(_, _, _, _)
stepLoopInPlace(h, cur, nxt, i) ==
    IF i = Width * Height
    THEN h
    ELSE LET x == i % Width
             y == i \div Width
         IN  stepLoopInPlace([h EXCEPT ![cur][getIndex(x, y)] = nextState(h, cur, x, y)],
                             cur, nxt, i + 1)

\* The loops of step() writing the live cells only, as into an array known
\* to be all dead.
RECURSIVE stepLoopWritesLiveOnly(_, _, _, _)
stepLoopWritesLiveOnly(h, cur, nxt, i) ==
    IF i = Width * Height
    THEN h
    ELSE LET x == i % Width
             y == i \div Width
         IN  stepLoopWritesLiveOnly(
                 IF nextState(h, cur, x, y)
                 THEN [h EXCEPT ![nxt][getIndex(x, y)] = TRUE]
                 ELSE h,
                 cur, nxt, i + 1)

\* The double loop of step(): y outer, x inner, so the cells are visited in
\* index order; each iteration reads the heap as the earlier iterations left
\* it and writes one element of the array that nxt references.
RECURSIVE stepLoop(_, _, _, _)
stepLoop(h, cur, nxt, i) ==
    IF i = Width * Height
    THEN h
    ELSE LET x == i % Width
             y == i \div Width
         IN  stepLoop([h EXCEPT ![nxt][getIndex(x, y)] = nextState(h, cur, x, y)],
                      cur, nxt, i + 1)

\* op: the call or callback; did: the engine mutation it made; rendered:
\* whether it called render().
NoOp == [op |-> "new", did |-> "new", x |-> 0, y |-> 0, v |-> FALSE, name |-> "",
         rendered |-> FALSE]
Op(o) == [NoOp EXCEPT !.op = o, !.did = o]
Before == [field |-> heap[currentGrid], generation |-> generation]
Last2(s) == IF Len(s) <= 2 THEN s ELSE SubSeq(s, Len(s) - 1, Len(s))
Resets == {"clear", "randomize", "loadPattern"}

\* The history variables after the call or callback o.
History(o) ==
    /\ lastOp' = o
    /\ pre' = Before
    /\ hist' = IF o.did = "step" THEN Last2(Append(hist, heap[currentGrid])) ELSE << >>
    /\ sinceReset' = IF o.did = "step" THEN sinceReset + 1
                     ELSE IF o.did \in Resets THEN 0 ELSE sinceReset
    /\ taken' = IF o.did = "getGridState" THEN heap[currentGrid] ELSE taken
    /\ advanced' = IF o.op = "frame" /\ o.did = "step" THEN browser.now ELSE advanced
    /\ ops' = ops + 1

\* A call made on the engine directly: nothing of the page is involved.
Track(o) == History(o) /\ UNCHANGED ui

\* step(): the loops, then the exchange of the two references and the
\* increment of the counter.
step(h, cur, nxt, gen) ==
    [heap |-> stepLoop(h, cur, nxt, 0),
     currentGrid |-> nxt,
     nextGrid |-> cur,
     generation |-> gen + 1]

Step ==
    /\ generation < MaxGen
    /\ \E e \in {step(heap, currentGrid, nextGrid, generation)} :
           /\ heap' = e.heap
           /\ currentGrid' = e.currentGrid
           /\ nextGrid' = e.nextGrid
           /\ generation' = e.generation
    /\ Track(Op("step"))
    /\ UNCHANGED <<snapshot, ret>>

\* setCell without the column test.
setCellNoColumnTest(h, cur, x, y, alive) ==
    IF y >= 0 /\ y < Height /\ getIndex(x, y) \in Cells
    THEN [h EXCEPT ![cur][getIndex(x, y)] = alive]
    ELSE h

setCell(h, cur, x, y, alive) ==
    IF x >= 0 /\ x < Width /\ y >= 0 /\ y < Height
    THEN [h EXCEPT ![cur][getIndex(x, y)] = alive]
    ELSE h

toggleCell(h, cur, x, y) ==
    IF x >= 0 /\ x < Width /\ y >= 0 /\ y < Height
    THEN LET index == getIndex(x, y)
         IN  [h EXCEPT ![cur][index] = ~h[cur][index]]
    ELSE h

\* Array.fill(false) on the array that cur references.
clear(h, cur) == [h EXCEPT ![cur] = [i \in DOMAIN h[cur] |-> FALSE]]

\* The reduce of getPopulation(), element by element.
RECURSIVE countLive(_, _)
countLive(arr, i) ==
    IF i = Width * Height
    THEN 0
    ELSE (IF arr[i] THEN 1 ELSE 0) + countLive(arr, i + 1)

getPopulation(h, cur) == countLive(h[cur], 0)

\* getGridState returning the engine's own array instead of a copy.
getGridStateNoCopy(h, cur) == [heap |-> h, ref |-> cur]

\* [...this.currentGrid]: a new array object with the same elements.
getGridState(h, cur) == [heap |-> [h EXCEPT !["S"] = h[cur]], ref |-> "S"]

patterns ==
    [glider  |-> << <<0, 1, 0>>,
                    <<0, 0, 1>>,
                    <<1, 1, 1>> >>,
     blinker |-> << <<1, 1, 1>> >>,
     toad    |-> << <<0, 1, 1, 1>>,
                    <<1, 1, 1, 0>> >>,
     beacon  |-> << <<1, 1, 0, 0>>,
                    <<1, 1, 0, 0>>,
                    <<0, 0, 1, 1>>,
                    <<0, 0, 1, 1>> >>]

\* The stamping loops of loadPattern; the tuples are 1-based, the loop
\* counters of the source 0-based.
RECURSIVE stamp(_, _, _, _, _, _, _)
stamp(h, cur, patternData, startX, startY, y, x) ==
    IF y = Len(patternData)
    THEN h
    ELSE IF x = Len(patternData[y + 1])
    THEN stamp(h, cur, patternData, startX, startY, y + 1, 0)
    ELSE stamp(IF patternData[y + 1][x + 1] = 1
               THEN setCell(h, cur, startX + x, startY + y, TRUE)
               ELSE h,
               cur, patternData, startX, startY, y, x + 1)

\* loadPattern that stamps without clearing first.
loadPatternNoClear(h, cur, pattern, startX, startY) ==
    IF pattern \notin DOMAIN patterns
    THEN h
    ELSE stamp(h, cur, patterns[pattern], startX, startY, 0, 0)

loadPattern(h, cur, pattern, startX, startY) ==
    LET cleared == clear(h, cur)
    IN  IF pattern \notin DOMAIN patterns
        THEN cleared
        ELSE stamp(cleared, cur, patterns[pattern], startX, startY, 0, 0)

\* Fields a randomize() call may draw: every Math.random() at or above
\* 0.3, every one below, and draws that fall below 0.3 on every second or
\* every third cell.
RandomDraws ==
    {[i \in Cells |-> FALSE], [i \in Cells |-> TRUE],
     [i \in Cells |-> i % 2 = 0], [i \in Cells |-> i % 3 = 1]}

GetCell(x, y) ==
    /\ ret' = getCell(heap, currentGrid, x, y)
    /\ Track([Op("getCell") EXCEPT !.x = x, !.y = y])
    /\ UNCHANGED <<engine, snapshot>>

SetCell(x, y, alive) ==
    /\ heap' = setCell(heap, currentGrid, x, y, alive)
    /\ Track([Op("setCell") EXCEPT !.x = x, !.y = y, !.v = alive])
    /\ UNCHANGED <<currentGrid, nextGrid, generation, snapshot, ret>>

ToggleCell(x, y) ==
    /\ heap' = toggleCell(heap, currentGrid, x, y)
    /\ Track([Op("toggleCell") EXCEPT !.x = x, !.y = y])
    /\ UNCHANGED <<currentGrid, nextGrid, generation, snapshot, ret>>

\* clear() that fills the array but leaves the counter alone.
ClearKeepsGeneration ==
    /\ heap' = clear(heap, currentGrid)
    /\ Track(Op("clear"))
    /\ UNCHANGED <<currentGrid, nextGrid, generation, snapshot, ret>>

Clear ==
    /\ heap' = clear(heap, currentGrid)
    /\ generation' = 0
    /\ Track(Op("clear"))
    /\ UNCHANGED <<currentGrid, nextGrid, snapshot, ret>>

\* randomize() that leaves the counter alone.
RandomizeKeepsGeneration ==
    /\ \E f \in RandomDraws : heap' = [heap EXCEPT ![currentGrid] = f]
    /\ Track(Op("randomize"))
    /\ UNCHANGED <<currentGrid, nextGrid, generation, snapshot, ret>>

Randomize ==
    /\ \E f \in RandomDraws : heap' = [heap EXCEPT ![currentGrid] = f]
    /\ generation' = 0
    /\ Track(Op("randomize"))
    /\ UNCHANGED <<currentGrid, nextGrid, snapshot, ret>>

\* randomize(density): the method declares no parameter, so an argument
\* handed to it is dropped and the draws are those of randomize().
RandomizeWith(density) ==
    /\ \E f \in RandomDraws : heap' = [heap EXCEPT ![currentGrid] = f]
    /\ generation' = 0
    /\ Track([Op("randomize") EXCEPT !.x = density, !.name = "density"])
    /\ UNCHANGED <<currentGrid, nextGrid, snapshot, ret>>

\* new Array(n) throws a RangeError for a negative n.
newGameOfLife(width, height) ==
    IF width * height < 0
    THEN [thrown |-> "RangeError"]
    ELSE [thrown |-> "none", width |-> width, height |-> height, generation |-> 0,
          currentGrid |-> [i \in 0..(width * height - 1) |-> FALSE],
          nextGrid |-> [i \in 0..(width * height - 1) |-> FALSE]]

\* Another engine is constructed; the one at hand is not involved.
NewGameOfLife(width, height) ==
    /\ ret' = newGameOfLife(width, height)
    /\ Track([Op("new GameOfLife") EXCEPT !.x = width, !.y = height])
    /\ UNCHANGED <<engine, snapshot>>

GetPopulation ==
    /\ ret' = getPopulation(heap, currentGrid)
    /\ Track(Op("getPopulation"))
    /\ UNCHANGED <<engine, snapshot>>

GetGeneration ==
    /\ ret' = generation
    /\ Track(Op("getGeneration"))
    /\ UNCHANGED <<engine, snapshot>>

GetGridState ==
    /\ \E r \in {getGridState(heap, currentGrid)} :
           heap' = r.heap /\ snapshot' = r.ref
    /\ Track(Op("getGridState"))
    /\ UNCHANGED <<currentGrid, nextGrid, generation, ret>>

LoadPattern(pattern, startX, startY) ==
    /\ heap' = loadPattern(heap, currentGrid, pattern, startX, startY)
    /\ generation' = 0
    /\ Track([Op("loadPattern") EXCEPT !.name = pattern, !.x = startX, !.y = startY])
    /\ UNCHANGED <<currentGrid, nextGrid, snapshot, ret>>

----------------------------------------------------------------------------
\* The engine from its construction: runs of at most MaxOps calls.

Xs == -1..Width
Ys == -1..Height
Names == {"glider", "blinker", "toad", "beacon", "spaceship"}
Points == {<<0, 0>>, <<Width - 1, Height - 1>>, <<Width, 0>>}
Origins == {<<0, 0>>, <<-1, 1>>}

\* The page before any of its scripts has run.
NoPage ==
    /\ controls = "none"
    /\ renderer = "none"
    /\ window = "none"
    /\ canvas = "none"
    /\ browser = "none"

Constructed(a, b) ==
    [r \in Refs |-> IF r = "A" THEN a ELSE IF r = "B" THEN b ELSE Unallocated]

Init ==
    /\ heap = Constructed(AllDead, AllDead)
    /\ currentGrid = "A"
    /\ nextGrid = "B"
    /\ generation = 0
    /\ snapshot = "none"
    /\ ret = "none"
    /\ NoPage
    /\ lastOp = NoOp
    /\ pre = Before
    /\ hist = << >>
    /\ sinceReset = 0
    /\ taken = Unallocated
    /\ advanced = -1
    /\ ops = 0

More == ops < MaxOps

Next ==
    \/ \E p \in Points : More /\ GetCell(p[1], p[2])
    \/ \E p \in Points, alive \in BOOLEAN : More /\ SetCell(p[1], p[2], alive)
    \/ \E p \in Points : More /\ ToggleCell(p[1], p[2])
    \/ More /\ Step
    \/ More /\ Clear
    \/ More /\ Randomize
    \/ More /\ GetPopulation
    \/ More /\ GetGeneration
    \/ More /\ GetGridState
    \/ \E n \in Names, p \in Origins : More /\ LoadPattern(n, p[1], p[2])

Spec == Init /\ [][Next]_vars

----------------------------------------------------------------------------
\* One call with any arguments, made on an engine that has run before: the
\* field is any of StartFields, the other buffer holds an earlier
\* generation (every cell live), the counter is 0 or MaxGen.

AllLive == [i \in Cells |-> TRUE]
StartFields ==
    {f \in Field : Cardinality({i \in Cells : f[i]}) <= MaxLive}

\* Densities, in percent.
Densities == {0, 100}

InitCalls ==
    /\ \E f \in StartFields : heap = Constructed(f, AllLive)
    /\ currentGrid = "A"
    /\ nextGrid = "B"
    /\ generation \in {0, MaxGen}
    /\ snapshot = "none"
    /\ ret = "none"
    /\ NoPage
    /\ lastOp = NoOp
    /\ pre = Before
    /\ hist = << >>
    /\ sinceReset = generation
    /\ taken = Unallocated
    /\ advanced = -1
    /\ ops = 0

First == ops = 0

NextCalls ==
    \/ \E x \in Xs, y \in Ys : First /\ GetCell(x, y)
    \/ \E x \in Xs, y \in Ys, alive \in BOOLEAN : First /\ SetCell(x, y, alive)
    \/ \E x \in Xs, y \in Ys : First /\ ToggleCell(x, y)
    \/ First /\ Clear
    \/ First /\ GetPopulation
    \/ First /\ GetGeneration
    \/ \E n \in Names, x \in Xs, y \in Ys : First /\ LoadPattern(n, x, y)
    \/ \E density \in Densities : First /\ RandomizeWith(density)
    \/ \E width \in {-Width, Width}, height \in {-Height, Height} :
           First /\ NewGameOfLife(width, height)

SpecCalls == InitCalls /\ [][NextCalls]_vars

----------------------------------------------------------------------------
\* The transition rule alone: any field the engine can hold, then two
\* successive step() calls.

InitStep ==
    /\ \E f \in Field : heap = Constructed(f, AllDead)
    /\ currentGrid = "A"
    /\ nextGrid = "B"
    /\ generation = 0
    /\ snapshot = "none"
    /\ ret = "none"
    /\ NoPage
    /\ lastOp = NoOp
    /\ pre = Before
    /\ hist = << >>
    /\ sinceReset = 0
    /\ taken = Unallocated
    /\ advanced = -1
    /\ ops = 0

NextStep == Len(hist) < 2 /\ Step

SpecStep == InitStep /\ [][NextStep]_vars

----------------------------------------------------------------------------
\* The page: renderer and controller around one engine.  JavaScript runs
\* each callback to completion, so a callback is one action.  A callback is
\* written as a function on the record World of everything it can touch;
\* did and rendered note the engine mutation it made and whether it
\* rendered.  Timeouts that only restyle the page (loading overlay, CSS
\* classes) are left out.

World ==
    [heap |-> heap, currentGrid |-> currentGrid, nextGrid |-> nextGrid,
     generation |-> generation, controls |-> controls, renderer |-> renderer,
     window |-> window, canvas |-> canvas, browser |-> browser,
     did |-> "none", rendered |-> FALSE]

Min(a, b) == IF a < b THEN a ELSE b
Max(a, b) == IF a > b THEN a ELSE b

\* calculateCellSize without the minimum for visibility.
calculateCellSizeNoMinimum(r, win) ==
    LET availableWidth == IF r.logicalWidth # 0 THEN r.logicalWidth ELSE win.innerWidth
        availableHeight == IF r.logicalHeight # 0 THEN r.logicalHeight ELSE win.innerHeight
        fit == Min(Min(availableWidth \div Width, availableHeight \div Height), MaxCellSize)
    IN  [r EXCEPT !.cellSize = fit,
                  !.showGrid = fit >= GridCellSize,
                  !.offsetX = (availableWidth - Width * fit) \div 2,
                  !.offsetY = (availableHeight - Height * fit) \div 2]

\* this.logicalWidth || window.innerWidth: 0 stands for undefined.
calculateCellSize(r, win) ==
    LET availableWidth == IF r.logicalWidth # 0 THEN r.logicalWidth ELSE win.innerWidth
        availableHeight == IF r.logicalHeight # 0 THEN r.logicalHeight ELSE win.innerHeight
        maxCellWidth == availableWidth \div Width
        maxCellHeight == availableHeight \div Height
        fit == Min(Min(maxCellWidth, maxCellHeight), MaxCellSize)
        cellSize == IF fit < MinCellSize THEN MinCellSize ELSE fit
        gridWidth == Width * cellSize
        gridHeight == Height * cellSize
    IN  [r EXCEPT !.cellSize = cellSize,
                  !.showGrid = IF fit < MinCellSize THEN FALSE ELSE fit >= GridCellSize,
                  !.offsetX = (availableWidth - gridWidth) \div 2,
                  !.offsetY = (availableHeight - gridHeight) \div 2]

\* window.devicePixelRatio || 1, and the size of the canvas in device pixels.
setupHighDPI(r, win) ==
    LET dpr == IF win.devicePixelRatio # 0 THEN win.devicePixelRatio ELSE 1
    IN  calculateCellSize([r EXCEPT !.canvasWidth = win.innerWidth * dpr,
                                    !.canvasHeight = win.innerHeight * dpr,
                                    !.logicalWidth = win.innerWidth,
                                    !.logicalHeight = win.innerHeight,
                                    !.offsetX = 0,
                                    !.offsetY = 0],
                          win)

\* The constructor; the canvas gets its size in setupHighDPI, 0 stands for
\* the size it had before.
newRenderer(win) ==
    setupHighDPI(
        calculateCellSize([cellSize |-> InitialCellSize, showGrid |-> TRUE,
                           offsetX |-> 0, offsetY |-> 0,
                           logicalWidth |-> 0, logicalHeight |-> 0,
                           canvasWidth |-> 0, canvasHeight |-> 0],
                          win),
        win)

\* The canvas fills the viewport: its bounding rectangle starts at (0, 0).
rect == [left |-> 0, top |-> 0]

\* canvasToGrid without the clamping to the grid.
canvasToGridNoClamp(r, canvasX, canvasY) ==
    [x |-> (canvasX - rect.left - r.offsetX) \div r.cellSize,
     y |-> (canvasY - rect.top - r.offsetY) \div r.cellSize]

\* canvasToGrid that does not subtract the offsets.
canvasToGridNoOffset(r, canvasX, canvasY) ==
    LET x == (canvasX - rect.left) \div r.cellSize
        y == (canvasY - rect.top) \div r.cellSize
    IN  [x |-> Max(0, Min(x, Width - 1)),
         y |-> Max(0, Min(y, Height - 1))]

canvasToGrid(r, canvasX, canvasY) ==
    LET x == (canvasX - rect.left - r.offsetX) \div r.cellSize
        y == (canvasY - rect.top - r.offsetY) \div r.cellSize
    IN  [x |-> Max(0, Min(x, Width - 1)),
         y |-> Max(0, Min(y, Height - 1))]

\* The square of the cell (x, y) on the canvas, as drawCells and
\* highlightCell place it.
cellSquare(r, x, y) ==
    [xPos |-> r.offsetX + x * r.cellSize,
     yPos |-> r.offsetY + y * r.cellSize,
     size |-> r.cellSize]

\* updateSettings: settings.has names the settings that are not undefined;
\* the colours have no part in the layout.
updateSettings(r, settings) ==
    LET sized == IF "cellSize" \in settings.has
                 THEN [r EXCEPT !.cellSize =
                           Max(MinSetCellSize, Min(settings.cellSize, MaxSetCellSize))]
                 ELSE r
    IN  IF "showGrid" \in settings.has
        THEN [sized EXCEPT !.showGrid = settings.showGrid]
        ELSE sized

\* drawCells: the cells for which getCell answers true get a rectangle.
drawCells(h, cur) ==
    [i \in Cells |-> getCell(h, cur, i % Width, i \div Width)]

\* A render() that empties the engine's field instead of the canvas.
renderClearsGame(w) ==
    [w EXCEPT !.heap = clear(w.heap, w.currentGrid),
              !.canvas = [cells |-> drawCells(w.heap, w.currentGrid),
                          highlight |-> << >>],
              !.rendered = TRUE]

render(w) ==
    [w EXCEPT !.canvas = [cells |-> drawCells(w.heap, w.currentGrid),
                          highlight |-> << >>],
              !.rendered = TRUE]

highlightCell(w, x, y) ==
    IF x < 0 \/ x >= Width \/ y < 0 \/ y >= Height
    THEN w
    ELSE [w EXCEPT !.canvas.highlight = <<x, y>>]

setTimeout(w, kind, delay, x, y, name) ==
    [w EXCEPT !.browser.timers =
                  @ \cup {[id |-> w.browser.seq, kind |-> kind,
                           due |-> w.browser.now + delay,
                           x |-> x, y |-> y, name |-> name]},
              !.browser.seq = @ + 1]

clearTimeout(w, id) ==
    [w EXCEPT !.browser.timers = {t \in @ : t.id # id}]

\* An identity no pending frame has and the controller does not hold.
requestAnimationFrame(w) ==
    LET used == w.browser.frames \cup {w.controls.animationId}
        id == CHOOSE n \in 1..(Cardinality(used) + 1) : n \notin used
    IN  [w EXCEPT !.browser.frames = @ \cup {id},
                  !.controls.animationId = id]

cancelAnimationFrame(w, id) ==
    [w EXCEPT !.browser.frames = @ \ {id}]

gameStep(w) ==
    LET e == step(w.heap, w.currentGrid, w.nextGrid, w.generation)
    IN  [w EXCEPT !.heap = e.heap, !.currentGrid = e.currentGrid,
                  !.nextGrid = e.nextGrid, !.generation = e.generation,
                  !.did = "step"]

gameClear(w) ==
    [w EXCEPT !.heap = clear(w.heap, w.currentGrid), !.generation = 0,
              !.did = "clear"]

gameRandomize(w, f) ==
    [w EXCEPT !.heap = [w.heap EXCEPT ![w.currentGrid] = f], !.generation = 0,
              !.did = "randomize"]

gameLoadPattern(w, pattern, startX, startY) ==
    [w EXCEPT !.heap = loadPattern(w.heap, w.currentGrid, pattern, startX, startY),
              !.generation = 0,
              !.did = "loadPattern"]

gameToggleCell(w, x, y) ==
    [w EXCEPT !.heap = toggleCell(w.heap, w.currentGrid, x, y),
              !.did = "toggleCell"]

toggleCellWithFeedback(w, x, y) ==
    setTimeout(render(gameToggleCell(w, x, y)), "highlight", HighlightDelay, x, y, "")

handleCanvasClick(w, clientX, clientY) ==
    LET coords == canvasToGrid(w.renderer, clientX, clientY)
    IN  toggleCellWithFeedback(w, coords.x, coords.y)

handleCanvasHover(w, clientX, clientY) ==
    IF w.controls.isRunning
    THEN w
    ELSE LET coords == canvasToGrid(w.renderer, clientX, clientY)
         IN  highlightCell(render(w), coords.x, coords.y)

clearHover(w) == IF ~w.controls.isRunning THEN render(w) ELSE w

handleResize(w) ==
    LET cleared == clearTimeout(w, w.controls.resizeTimeout)
    IN  [setTimeout(cleared, "resize", ResizeDelay, 0, 0, "")
            EXCEPT !.controls.resizeTimeout = cleared.browser.seq]

rendererResize(w) ==
    setTimeout([w EXCEPT !.renderer = setupHighDPI(w.renderer, w.window)],
               "render", RenderDelay, 0, 0, "")

\* animate() that does not note the time of its advance.
animateKeepsLastStepTime(w, currentTime) ==
    IF ~w.controls.isRunning
    THEN w
    ELSE requestAnimationFrame(
             IF currentTime - w.controls.lastStepTime >= w.controls.animationSpeed
             THEN render(gameStep(w))
             ELSE w)

animate(w, currentTime) ==
    IF ~w.controls.isRunning
    THEN w
    ELSE requestAnimationFrame(
             IF currentTime - w.controls.lastStepTime >= w.controls.animationSpeed
             THEN [render(gameStep(w)) EXCEPT !.controls.lastStepTime = currentTime]
             ELSE w)

\* play() that hands animate() the clock.
playHandsClock(w) ==
    IF w.controls.isRunning
    THEN w
    ELSE animate([w EXCEPT !.controls.isRunning = TRUE], w.browser.now)

\* animate() is called without a time: currentTime takes its default, 0.
play(w) ==
    IF w.controls.isRunning
    THEN w
    ELSE animate([w EXCEPT !.controls.isRunning = TRUE], 0)

\* pause() that leaves the requested frame alone.
pauseKeepsFrame(w) ==
    IF ~w.controls.isRunning
    THEN w
    ELSE [w EXCEPT !.controls.isRunning = FALSE, !.controls.animationId = 0]

\* 0 stands for the null animationId.
pause(w) ==
    IF ~w.controls.isRunning
    THEN w
    ELSE LET stopped == [w EXCEPT !.controls.isRunning = FALSE]
         IN  IF stopped.controls.animationId # 0
             THEN [cancelAnimationFrame(stopped, stopped.controls.animationId)
                      EXCEPT !.controls.animationId = 0]
             ELSE stopped

controlsStep(w) == render(gameStep(w))

controlsClear(w) == setTimeout(pause(w), "clear", ClearDelay, 0, 0, "")

controlsRandomize(w) == setTimeout(pause(w), "randomize", RandomizeDelay, 0, 0, "")

controlsLoadPattern(w, pattern) ==
    setTimeout(pause(w), "loadPattern", LoadDelay, 0, 0, pattern)

setSpeed(w, speed) ==
    [w EXCEPT !.controls.animationSpeed = Max(MinSpeed, Min(speed, MaxSpeed))]

\* The body of the timeout t; f is what randomize() draws.
timeout(w, t, f) ==
    CASE t.kind = "highlight" -> highlightCell(w, t.x, t.y)
      [] t.kind = "resize" -> rendererResize(w)
      [] t.kind = "render" -> render(w)
      [] t.kind = "clear" -> render(gameClear(w))
      [] t.kind = "randomize" -> render(gameRandomize(w, f))
      [] t.kind = "loadPattern" ->
             LET centerX == Width \div 2
                 centerY == Height \div 2
             IN  render(gameLoadPattern(w, t.name, centerX - 2, centerY - 2))

\* The callback named o has run and left w.
Commit(w, o) ==
    \E r \in {w} :
        /\ r.generation <= MaxGen
        /\ heap' = r.heap
        /\ currentGrid' = r.currentGrid
        /\ nextGrid' = r.nextGrid
        /\ generation' = r.generation
        /\ controls' = r.controls
        /\ renderer' = r.renderer
        /\ window' = r.window
        /\ canvas' = r.canvas
        /\ browser' = r.browser
        /\ History([o EXCEPT !.did = r.did, !.rendered = r.rendered])
        /\ UNCHANGED <<snapshot, ret>>

On(name) == [NoOp EXCEPT !.op = name]

Play == Commit(play(World), On("play"))
Pause == Commit(pause(World), On("pause"))
ControlsStep == Commit(controlsStep(World), On("controls.step"))
ControlsClear == Commit(controlsClear(World), On("controls.clear"))
ControlsRandomize == Commit(controlsRandomize(World), On("controls.randomize"))
ControlsLoadPattern(pattern) ==
    Commit(controlsLoadPattern(World, pattern),
           [On("controls.loadPattern") EXCEPT !.name = pattern])
SetSpeed(speed) == Commit(setSpeed(World, speed), [On("setSpeed") EXCEPT !.x = speed])
CanvasClick(clientX, clientY) ==
    Commit(handleCanvasClick(World, clientX, clientY),
           [On("click") EXCEPT !.x = clientX, !.y = clientY])
CanvasHover(clientX, clientY) ==
    Commit(handleCanvasHover(World, clientX, clientY),
           [On("hover") EXCEPT !.x = clientX, !.y = clientY])
MouseLeave == Commit(clearHover(World), On("mouseleave"))

\* The window takes a new size and the resize event is handled.
Resize(size) ==
    Commit(handleResize([World EXCEPT !.window = size]), On("resize"))

\* A requested animation frame is served: its callback gets the clock.
Frame ==
    \E id \in browser.frames :
        Commit(animate(cancelAnimationFrame(World, id), browser.now), On("frame"))

\* A timeout fires: not before its delay has passed, the earliest first,
\* among equals the one set first.
Timeout ==
    \E t \in browser.timers :
        /\ t.due <= browser.now
        /\ \A u \in browser.timers :
               u.due > t.due \/ (u.due = t.due /\ u.id >= t.id)
        /\ \E f \in IF t.kind = "randomize" THEN RandomDraws ELSE {AllDead} :
               Commit(timeout(clearTimeout(World, t.id), t, f),
                      [On("timeout") EXCEPT !.name = t.kind, !.x = t.id])

\* Time passes up to the next moment at which something can happen: a
\* timeout falls due, or, with an animation frame requested, the next frame.
NextMoments ==
    {t.due : t \in {u \in browser.timers : u.due > browser.now}}
        \cup (IF browser.frames # {} THEN {browser.now + MinSpeed} ELSE {})

Advance ==
    /\ NextMoments # {}
    /\ LET next == CHOOSE m \in NextMoments : \A n \in NextMoments : m <= n
       IN  browser' = [browser EXCEPT !.now = next]
    /\ UNCHANGED <<engine, snapshot, ret, controls, renderer, window, canvas,
                   lastOp, pre, hist, sinceReset, taken, advanced, ops>>

Elapse == Advance /\ browser'.now <= MaxTime

Roomy == [innerWidth |-> 11 * Width + 7, innerHeight |-> 11 * Height + 1,
          devicePixelRatio |-> 1]
Tight == [innerWidth |-> 3 * Width, innerHeight |-> 3 * Height + 1,
          devicePixelRatio |-> 1]
Pointers == {<<-5, -5>>, <<20, 14>>}
Speeds == {10, 100}

\* initializeApp: engine, renderer and controller are constructed, the board
\* is randomized and rendered.
InitPage ==
    /\ \E f \in RandomDraws : heap = Constructed(f, AllDead)
    /\ currentGrid = "A"
    /\ nextGrid = "B"
    /\ generation = 0
    /\ snapshot = "none"
    /\ ret = "none"
    /\ controls = [isRunning |-> FALSE, animationId |-> 0,
                   animationSpeed |-> InitialSpeed, lastStepTime |-> 0,
                   resizeTimeout |-> 0]
    /\ window = Roomy
    /\ renderer = newRenderer(Roomy)
    /\ canvas = [cells |-> drawCells(heap, currentGrid), highlight |-> << >>]
    /\ browser = [now |-> 0, frames |-> {}, timers |-> {}, seq |-> 1]
    /\ lastOp = [Op("randomize") EXCEPT !.rendered = TRUE]
    /\ pre = [field |-> AllDead, generation |-> 0]
    /\ hist = << >>
    /\ sinceReset = 0
    /\ taken = Unallocated
    /\ advanced = -1
    /\ ops = 0

Turn == ops < MaxCallbacks

NextPage ==
    \/ Turn /\ Play
    \/ Turn /\ Pause
    \/ Turn /\ ControlsStep
    \/ Turn /\ ControlsClear
    \/ Turn /\ ControlsRandomize
    \/ \E n \in {"glider", "spaceship"} : Turn /\ ControlsLoadPattern(n)
    \/ \E v \in Speeds : Turn /\ SetSpeed(v)
    \/ \E p \in Pointers : Turn /\ CanvasClick(p[1], p[2])
    \/ \E p \in Pointers : Turn /\ CanvasHover(p[1], p[2])
    \/ Turn /\ MouseLeave
    \/ \E size \in {Roomy, Tight} : Turn /\ Resize(size)
    \/ Turn /\ Frame
    \/ Turn /\ Timeout
    \/ Elapse

SpecPage == InitPage /\ [][NextPage]_vars

----------------------------------------------------------------------------
\* The animation loop: runs of at most MaxOps + 1 callbacks of the commands
\* that start, stop, retime and bypass it, of its frames and of the
\* timeouts the commands set.

LoopTurn == ops <= MaxOps

NextLoop ==
    \/ LoopTurn /\ Play
    \/ LoopTurn /\ Pause
    \/ LoopTurn /\ ControlsStep
    \/ LoopTurn /\ ControlsClear
    \/ \E v \in Speeds : LoopTurn /\ SetSpeed(v)
    \/ LoopTurn /\ Frame
    \/ LoopTurn /\ Timeout
    \/ Elapse

SpecLoop == InitPage /\ [][NextLoop]_vars

----------------------------------------------------------------------------
\* The page while its surface changes: at most MaxCallbacks events of the
\* user and of the display, and every timeout they lead to.  The display's
\* pixel ratio changes either together with the viewport, which the browser
\* announces with a resize event (zooming), or alone, which it does not
\* announce with one (the window moved to another monitor); the page
\* listens to resize events only.  The event loop lets time pass and runs a
\* timeout that is due: weak fairness of Advance and of Timeout.

DevicePixelRatioChange(ratio) ==
    /\ ratio # window.devicePixelRatio
    /\ window' = [window EXCEPT !.devicePixelRatio = ratio]
    /\ History(On("devicePixelRatio"))
    /\ UNCHANGED <<engine, snapshot, ret, controls, renderer, canvas, browser>>

Ratios == {1, 2}

NextSurface ==
    \/ \E size \in {Roomy, Tight, [Tight EXCEPT !.devicePixelRatio = 2]} :
           Turn /\ Resize(size)
    \/ \E ratio \in Ratios : Turn /\ DevicePixelRatioChange(ratio)
    \/ \E p \in Pointers : Turn /\ CanvasHover(p[1], p[2])
    \/ \E p \in Pointers : Turn /\ CanvasClick(p[1], p[2])
    \/ Timeout
    \/ Advance

SpecSurface ==
    InitPage /\ [][NextSurface]_vars /\ WF_vars(Timeout) /\ WF_vars(Advance)

----------------------------------------------------------------------------
\* The renderer alone: constructed for an engine with a populated field and
\* for any of Viewports, then runs of at most MaxCallbacks calls of its
\* methods.

SetupHighDPI(size) ==
    Commit([World EXCEPT !.window = size,
                         !.renderer = setupHighDPI(renderer, size)],
           [On("setupHighDPI") EXCEPT !.x = size.innerWidth, !.y = size.innerHeight])

CalculateCellSize ==
    Commit([World EXCEPT !.renderer = calculateCellSize(renderer, window)],
           On("calculateCellSize"))

UpdateSettings(settings) ==
    Commit([World EXCEPT !.renderer = updateSettings(renderer, settings)],
           [On("updateSettings") EXCEPT !.x = settings.cellSize,
                                        !.v = settings.showGrid,
                                        !.name = IF "cellSize" \in settings.has
                                                 THEN "cellSize" ELSE "showGrid"])

Render == Commit(render(World), On("render"))

HighlightCell(x, y) ==
    Commit(highlightCell(World, x, y), [On("highlightCell") EXCEPT !.x = x, !.y = y])

CanvasToGrid(canvasX, canvasY) ==
    /\ ret' = canvasToGrid(renderer, canvasX, canvasY)
    /\ History([On("canvasToGrid") EXCEPT !.x = canvasX, !.y = canvasY])
    /\ UNCHANGED <<engine, snapshot, ui>>

\* Viewports: Snug gives cells of 5 pixels, Huge more room than the largest
\* cells need, Dense is Roomy on a display of two device pixels per pixel.
Snug == [innerWidth |-> 5 * Width, innerHeight |-> 5 * Height + 1,
         devicePixelRatio |-> 1]
Huge == [innerWidth |-> 25 * Width + 1, innerHeight |-> 25 * Height,
         devicePixelRatio |-> 1]
Dense == [Roomy EXCEPT !.devicePixelRatio = 2]
Viewports == {Roomy, Tight, Snug, Huge, Dense}
Positions == {<<-5, -5>>, <<8, 9>>, <<20, 14>>, <<1000, 1000>>}
Settings ==
    {[has |-> {"cellSize"}, cellSize |-> c, showGrid |-> FALSE] : c \in {0, 5, 60}}
        \cup {[has |-> {"showGrid"}, cellSize |-> 0, showGrid |-> TRUE]}

InitRenderer ==
    /\ heap = Constructed([i \in Cells |-> i % 2 = 0], AllDead)
    /\ currentGrid = "A"
    /\ nextGrid = "B"
    /\ generation = 0
    /\ snapshot = "none"
    /\ ret = "none"
    /\ controls = "none"
    /\ window \in Viewports
    /\ renderer = newRenderer(window)
    /\ canvas = [cells |-> AllDead, highlight |-> << >>]
    /\ browser = "none"
    /\ lastOp = On("new CanvasRenderer")
    /\ pre = Before
    /\ hist = << >>
    /\ sinceReset = 0
    /\ taken = Unallocated
    /\ advanced = -1
    /\ ops = 0

NextRenderer ==
    \/ \E size \in Viewports : Turn /\ SetupHighDPI(size)
    \/ Turn /\ CalculateCellSize
    \/ \E settings \in Settings : Turn /\ UpdateSettings(settings)
    \/ Turn /\ Render
    \/ \E p \in {<<0, 0>>, <<Width, 0>>} : Turn /\ HighlightCell(p[1], p[2])
    \/ \E p \in Positions : Turn /\ CanvasToGrid(p[1], p[2])

SpecRenderer == InitRenderer /\ [][NextRenderer]_vars

----------------------------------------------------------------------------
\* Vocabulary of the properties, stated on flat-array indices without the
\* engine's coordinate accessors.

Row(i) == i \div Width
Col(i) == i % Width
Abs(n) == IF n < 0 THEN -n ELSE n
Adjacent(i, j) ==
    /\ i # j
    /\ Abs(Row(i) - Row(j)) <= 1
    /\ Abs(Col(i) - Col(j)) <= 1
Around == [i \in Cells |-> {j \in Cells : Adjacent(i, j)}]
LiveAround(f, i) == Cardinality({j \in Around[i] : f[j]})
Conway(f) ==
    [i \in Cells |-> IF f[i] THEN LiveAround(f, i) \in {2, 3}
                            ELSE LiveAround(f, i) = 3]
Live(f) == {i \in Cells : f[i]}
Population(f) == Cardinality(Live(f))
FieldOf(S) == [i \in Cells |-> i \in S]
At(x, y) == y * Width + x
CurrentField == heap[currentGrid]

HBlinker(x, y) == FieldOf({At(x, y), At(x + 1, y), At(x + 2, y)})
HBlinkers == {HBlinker(x, y) : x \in 0..(Width - 3), y \in 0..(Height - 1)}
InnerHBlinkers == {HBlinker(x, y) : x \in 0..(Width - 3), y \in 1..(Height - 2)}
IsHBlinker(f) == f \in HBlinkers
IsInnerHBlinker(f) == f \in InnerHBlinkers
Block(x, y) == FieldOf({At(x, y), At(x + 1, y), At(x, y + 1), At(x + 1, y + 1)})
Blocks == {Block(x, y) : x \in 0..(Width - 2), y \in 0..(Height - 2)}
IsBlock(f) == f \in Blocks

Inside(x, y) == x \in 0..(Width - 1) /\ y \in 0..(Height - 1)
KnownPatterns == {"glider", "blinker", "toad", "beacon"}
Queries == {"getCell", "getPopulation", "getGeneration", "getGridState"}

\* The live cells of the templates, as (column, row) offsets from the origin.
TemplateCells(name) ==
    CASE name = "glider"  -> {<<1, 0>>, <<2, 1>>, <<0, 2>>, <<1, 2>>, <<2, 2>>}
      [] name = "blinker" -> {<<0, 0>>, <<1, 0>>, <<2, 0>>}
      [] name = "toad"    -> {<<1, 0>>, <<2, 0>>, <<3, 0>>, <<0, 1>>, <<1, 1>>, <<2, 1>>}
      [] name = "beacon"  -> {<<0, 0>>, <<1, 0>>, <<0, 1>>, <<1, 1>>,
                              <<2, 2>>, <<3, 2>>, <<2, 3>>, <<3, 3>>}
Stamped(name, ox, oy) ==
    {At(ox + c[1], oy + c[2]) :
        c \in {d \in TemplateCells(name) : Inside(ox + d[1], oy + d[2])}}

----------------------------------------------------------------------------
\* C2: for coordinates outside the grid, getCell returns false, and setCell
\* and toggleCell leave every cell of the field and the generation counter
\* as they were.
C2_OutsideIsDeadAndInert ==
    ~Inside(lastOp.x, lastOp.y) =>
        /\ lastOp.op = "getCell" => ret = FALSE
        /\ lastOp.op \in {"setCell", "toggleCell"} =>
              /\ CurrentField = pre.field
              /\ generation = pre.generation

\* setCell(Width, 0, true) on a field whose cell (0, 1), the one the flat
\* index of (Width, 0) addresses, is dead.
C2_Witness ==
    /\ lastOp.op = "setCell"
    /\ lastOp.x = Width /\ lastOp.y = 0 /\ lastOp.v
    /\ Population(pre.field) > 0
    /\ ~pre.field[At(0, 1)]

\* C3: the generation counter is the number of step() calls completed since
\* the latest construction, clear(), randomize() or loadPattern(): a step
\* adds one, those calls give zero, every other call leaves it alone.
C3_GenerationCountsSteps ==
    /\ generation = sinceReset
    /\ lastOp.op = "step" => generation = pre.generation + 1
    /\ lastOp.op \in Resets \cup {"new"} => generation = 0
    /\ lastOp.op \in Queries \cup {"setCell", "toggleCell"} =>
          generation = pre.generation

\* A randomize() made after two steps.
C3_Witness ==
    /\ lastOp.op = "randomize"
    /\ pre.generation = 2
    /\ generation = 0

\* C4: loadPattern with an unknown name leaves the field and the generation
\* counter as they were.
C4_UnknownPatternIsNoOp ==
    (lastOp.op = "loadPattern" /\ lastOp.name \notin KnownPatterns) =>
        /\ CurrentField = pre.field
        /\ generation = pre.generation

\* C5: after loadPattern with a known name the live cells are exactly the
\* template's live cells moved to the origin that fall inside the grid.
C5_PatternStampedOnCleared ==
    (lastOp.op = "loadPattern" /\ lastOp.name \in KnownPatterns) =>
        Live(CurrentField) = Stamped(lastOp.name, lastOp.x, lastOp.y)

\* The glider loaded at (0, 0) over a field with a live cell the glider
\* does not cover.
C5_Witness ==
    /\ lastOp.op = "loadPattern" /\ lastOp.name = "glider"
    /\ lastOp.x = 0 /\ lastOp.y = 0
    /\ pre.field[At(0, 0)]
    /\ Live(CurrentField) = {At(1, 0), At(2, 1), At(0, 2), At(1, 2), At(2, 2)}

\* C6: after clear(), getPopulation() is 0 and getGeneration() is 0.
C6_ClearEmptiesAndResets ==
    lastOp.op = "clear" =>
        /\ getPopulation(heap, currentGrid) = 0
        /\ generation = 0

\* clear() of a populated field at a positive generation.
C6_Witness ==
    /\ lastOp.op = "clear"
    /\ Population(pre.field) = MaxLive
    /\ pre.generation > 0

\* C7: the array returned by getGridState() keeps the contents the field had
\* when it was taken, whatever the engine does afterwards.
C7_SnapshotIsIndependent ==
    snapshot # "none" => heap[snapshot] = taken

\* Two steps after a snapshot of a populated field: both buffers have been
\* written since.
C7_Witness ==
    /\ snapshot # "none"
    /\ Len(hist) = 2 /\ hist[1] = taken
    /\ Population(taken) > 0
    /\ heap[currentGrid] # taken
    /\ heap[nextGrid] # taken

\* C10: every render() paints a whole generation: the complete current field,
\* and in a callback that advanced the engine either the complete field
\* before the advance or its complete successor, never a mixture.
C10_RenderSeesWholeGeneration ==
    lastOp.rendered =>
        /\ canvas.cells = CurrentField
        /\ lastOp.did = "step" => canvas.cells \in {pre.field, Conway(pre.field)}

\* An animation frame that advanced a populated field and rendered a
\* populated successor different from it.
C10_Witness ==
    /\ lastOp.op = "frame"
    /\ lastOp.did = "step"
    /\ lastOp.rendered
    /\ Population(pre.field) > 0
    /\ Population(canvas.cells) > 0
    /\ canvas.cells # pre.field

----------------------------------------------------------------------------
\* C1: after step() the field is the B3/S23 successor of the field before
\* the step, with every cell outside the grid dead and no wraparound; the
\* successor of each cell is computed from the field before the step only.
C1_StepIsConway ==
    lastOp.op = "step" => CurrentField = Conway(pre.field)

\* A step in which a cell was born, one survived, one died of isolation and
\* one died of overcrowding.
C1_Witness ==
    /\ lastOp.op = "step"
    /\ \E b, s, u, o \in Cells :
          /\ ~pre.field[b] /\ CurrentField[b]
          /\ pre.field[s] /\ CurrentField[s]
          /\ pre.field[u] /\ ~CurrentField[u] /\ LiveAround(pre.field, u) < 2
          /\ pre.field[o] /\ ~CurrentField[o] /\ LiveAround(pre.field, o) > 3

\* C8 as stated: a horizontal blinker in any row is restored by two
\* successive step() calls.
C8_AnyRowBlinkerReturns ==
    (Len(hist) = 2 /\ lastOp.op = "step" /\ IsHBlinker(hist[1]))
        => CurrentField = hist[1]

\* C8 amended: a horizontal blinker in a row that has a grid row above it
\* and a grid row below it is restored by two successive step() calls.
C8_InnerBlinkerReturns ==
    (Len(hist) = 2 /\ lastOp.op = "step" /\ IsInnerHBlinker(hist[1]))
        => CurrentField = hist[1]

\* Two steps taken from an inner horizontal blinker, the field in between
\* being the vertical phase.
C8_Witness ==
    /\ Len(hist) = 2
    /\ lastOp.op = "step"
    /\ IsInnerHBlinker(hist[1])
    /\ hist[2] # hist[1]
    /\ Population(hist[2]) = 3

\* C9: a field whose only live cells form a 2x2 block, wherever the block
\* lies, is left unchanged by step(): same live cells, same population.
C9_BlockIsStill ==
    (lastOp.op = "step" /\ IsBlock(pre.field))
        => /\ CurrentField = pre.field
           /\ Population(CurrentField) = Population(pre.field)

\* A step taken from a block that touches the border of the grid.
C9_Witness ==
    /\ lastOp.op = "step"
    /\ pre.field = Block(Width - 2, 0)
    /\ Population(CurrentField) = 4

----------------------------------------------------------------------------
\* C11: whatever the pointer position and whatever layout the renderer is
\* in, canvasToGrid answers a column in 0..Width-1 and a row in 0..Height-1.
C11_PointerMapsIntoGrid ==
    lastOp.op = "canvasToGrid" =>
        /\ ret.x \in 0..(Width - 1)
        /\ ret.y \in 0..(Height - 1)

\* A pointer beyond the surface mapped with the smallest cells
\* updateSettings allows: the answer is the last column and the last row.
C11_Witness ==
    /\ lastOp.op = "canvasToGrid"
    /\ lastOp.x > window.innerWidth /\ lastOp.y > window.innerHeight
    /\ renderer.cellSize = MinSetCellSize
    /\ ret = [x |-> Width - 1, y |-> Height - 1]

\* C12: in every state of the renderer the cell size is at least 4 and at
\* most 20.
C12_CellSizeInRange == renderer.cellSize \in 4..20

\* Layout recomputations: the constructor, setupHighDPI and calculateCellSize.
Recomputations == {"new CanvasRenderer", "setupHighDPI", "calculateCellSize"}
Least(S) == CHOOSE m \in S : \A n \in S : m <= n
Greatest(S) == CHOOSE m \in S : \A n \in S : m >= n

\* C13: a layout recomputation gives the cell size
\* max(4, min(floor(surfaceWidth / gridWidth), floor(surfaceHeight / gridHeight), 20)),
\* which lies in 4..20, and draws grid lines iff the value before the
\* raise to 4 is at least 6.
C13_LayoutRecomputation ==
    lastOp.op \in Recomputations =>
        LET unclamped == Least({renderer.logicalWidth \div Width,
                                renderer.logicalHeight \div Height, 20})
        IN  /\ renderer.cellSize = Greatest({4, unclamped})
            /\ renderer.cellSize \in 4..20
            /\ renderer.showGrid <=> unclamped >= 6
            /\ renderer.cellSize < 6 => ~renderer.showGrid

\* calculateCellSize on a surface too small for cells of 4 pixels: cells of
\* 4 pixels, no grid lines.
C13_Witness ==
    /\ lastOp.op = "calculateCellSize"
    /\ renderer.logicalWidth \div Width < 4
    /\ renderer.cellSize = 4
    /\ ~renderer.showGrid

\* C14: whenever a frame is rendered or a pointer is mapped, the offsets
\* center the grid of the current cell size in the current logical surface.
C14_GridIsCentered ==
    lastOp.op \in {"render", "canvasToGrid"} =>
        /\ renderer.offsetX = (renderer.logicalWidth - renderer.cellSize * Width) \div 2
        /\ renderer.offsetY = (renderer.logicalHeight - renderer.cellSize * Height) \div 2

\* C17: render() and highlightCell() change neither buffer, neither
\* reference and not the generation counter.
C17_RenderingLeavesEngineAlone ==
    [][lastOp'.op \in {"render", "highlightCell"} =>
           UNCHANGED <<heap, currentGrid, nextGrid, generation>>]_vars

\* A populated field rendered, and a cell of it highlighted afterwards.
C17_Witness ==
    /\ lastOp.op = "highlightCell"
    /\ Inside(lastOp.x, lastOp.y)
    /\ Population(canvas.cells) > 0
    /\ canvas.cells = CurrentField

\* The pointer (px, py) lies in the square sq.
Within(px, py, sq) ==
    /\ sq.xPos <= px /\ px < sq.xPos + sq.size
    /\ sq.yPos <= py /\ py < sq.yPos + sq.size

\* C20: a pointer inside the painted grid area is mapped to the cell whose
\* painted square contains it.
C20_PointerMappingInvertsRender ==
    (/\ lastOp.op = "canvasToGrid"
     /\ \E x \in 0..(Width - 1), y \in 0..(Height - 1) :
            Within(lastOp.x, lastOp.y, cellSquare(renderer, x, y))) =>
        Within(lastOp.x, lastOp.y, cellSquare(renderer, ret.x, ret.y))

\* A pointer in a square that is neither in the first column nor in the
\* first row, of a grid that starts right of the surface's left edge.
C20_Witness ==
    /\ lastOp.op = "canvasToGrid"
    /\ renderer.offsetX > 0
    /\ ret.x > 0 /\ ret.y > 0
    /\ Within(lastOp.x, lastOp.y, cellSquare(renderer, ret.x, ret.y))

\* C15: constructing an engine with a negative width or a negative height
\* fails.
C15_InvalidDimensionsFail ==
    (lastOp.op = "new GameOfLife" /\ (lastOp.x < 0 \/ lastOp.y < 0)) =>
        ret.thrown # "none"

\* C16: randomize with density 0 leaves no cell live, with density 1 (100
\* percent) every cell.
C16_DensityGoverns ==
    (lastOp.op = "randomize" /\ lastOp.name = "density") =>
        /\ lastOp.x = 0 => Population(CurrentField) = 0
        /\ lastOp.x = 100 => Population(CurrentField) = Cardinality(Cells)

\* C19: setCell and toggleCell inside the grid write the one cell at
\* y * Width + x, setCell the value given and toggleCell the negation of the
\* value found, and leave every other cell, the other buffer, both
\* references and the generation counter as they were.
C19_WritesOneCell ==
    [][(lastOp'.op \in {"setCell", "toggleCell"} /\ Inside(lastOp'.x, lastOp'.y)) =>
           LET i == At(lastOp'.x, lastOp'.y)
           IN  /\ heap'[currentGrid'][i] =
                      IF lastOp'.op = "setCell" THEN lastOp'.v
                      ELSE ~heap[currentGrid][i]
               /\ \A j \in Cells \ {i} : heap'[currentGrid'][j] = heap[currentGrid][j]
               /\ currentGrid' = currentGrid
               /\ nextGrid' = nextGrid
               /\ heap'[nextGrid'] = heap[nextGrid]
               /\ generation' = generation]_vars

\* toggleCell on the live last cell of a field with other live cells, made
\* after steps: the cell is dead, the others are live still.
C19_Witness ==
    /\ lastOp.op = "toggleCell"
    /\ lastOp.x = Width - 1 /\ lastOp.y = Height - 1
    /\ pre.field[At(Width - 1, Height - 1)]
    /\ ~CurrentField[At(Width - 1, Height - 1)]
    /\ Population(CurrentField) > 0
    /\ generation = MaxGen

\* The surface has just changed; the debounced recomputation has just run;
\* no recomputation is waiting; the layout is the one of the viewport.
SurfaceChanged == lastOp.op \in {"resize", "devicePixelRatio"}
LayoutRecomputed == lastOp.op = "timeout" /\ lastOp.name = "resize"
Settled == \A t \in browser.timers : t.kind # "resize"
LayoutIsCurrent ==
    LET unclamped == Least({window.innerWidth \div Width,
                            window.innerHeight \div Height, 20})
        size == Greatest({4, unclamped})
    IN  /\ renderer.logicalWidth = window.innerWidth
        /\ renderer.logicalHeight = window.innerHeight
        /\ renderer.cellSize = size
        /\ renderer.offsetX = (window.innerWidth - size * Width) \div 2
        /\ renderer.offsetY = (window.innerHeight - size * Height) \div 2

\* C18: after a resize and after a change of the device pixel ratio the
\* debounced recomputation runs; in the end the layout is the one computed
\* from the viewport; and while no recomputation is waiting, every render
\* and every pointer mapping uses that layout.
C18_LayoutFollowsSurface ==
    /\ SurfaceChanged ~> LayoutRecomputed
    /\ <>[](Settled /\ LayoutIsCurrent)
    /\ [](Settled => LayoutIsCurrent)

\* What holds of the resize events alone.
ResizeIsFollowed ==
    /\ (lastOp.op = "resize") ~> LayoutRecomputed
    /\ <>[](Settled /\ LayoutIsCurrent)
    /\ [](Settled => LayoutIsCurrent)

----------------------------------------------------------------------------
\* C21: when the timeout of a clear, randomize or loadPattern command
\* changes the grid, the animation is not running.
C21_DeferredMutationWhilePaused ==
    (lastOp.op = "timeout" /\ lastOp.name \in Resets) => ~controls.isRunning

\* C22: the timeouts of the clear, randomize and loadPattern commands run
\* in the order the commands were issued: when one of them runs, none set
\* by an earlier command is still waiting.
C22_CommandsApplyInOrder ==
    (lastOp.op = "timeout" /\ lastOp.name \in Resets) =>
        \A t \in browser.timers : t.kind \in Resets => t.id > lastOp.x

\* C23: at most one animation frame is requested at any time, and none
\* while the animation is not running; play() while running and pause()
\* while not running change nothing of the engine and of the page.
C23_OneAnimationLoop ==
    /\ [](/\ Cardinality(browser.frames) <= 1
          /\ ~controls.isRunning => browser.frames = {})
    /\ [][(/\ ops' # ops
           /\ \/ lastOp'.op = "play" /\ controls.isRunning
              \/ lastOp'.op = "pause" /\ ~controls.isRunning) =>
              UNCHANGED <<engine, ui>>]_vars

\* A frame callback that advanced the engine and requested the next frame.
C23_Witness ==
    /\ lastOp.op = "frame"
    /\ lastOp.did = "step"
    /\ controls.isRunning
    /\ Cardinality(browser.frames) = 1

\* The step is a callback named op.
Ran(op) == ops' # ops /\ lastOp'.op = op

\* C24: while the animation is not running, the generation counter changes
\* only in an explicit step command and in the timeout of a clear,
\* randomize or loadPattern command; neither play() nor a frame changes it.
C24_PausedLoopDoesNotAdvance ==
    [][(ops' # ops /\ ~controls.isRunning /\ generation' # generation) =>
           \/ lastOp'.op = "controls.step"
           \/ lastOp'.op = "timeout" /\ lastOp'.name \in Resets]_vars

\* A step command given after the loop had advanced the engine and had
\* been paused.
C24_Witness ==
    /\ lastOp.op = "controls.step"
    /\ lastOp.did = "step"
    /\ ~controls.isRunning
    /\ advanced > 0
    /\ generation = pre.generation + 1

\* C25: an advance of the animation loop comes at a frame timestamp that is
\* at least animationSpeed later than the timestamp of the loop's advance
\* before it; animationSpeed is within 50..2000; play() advances nothing.
C25_LoopIsThrottled ==
    /\ [][(Ran("frame") /\ lastOp'.did = "step" /\ advanced >= 0) =>
              browser.now - advanced >= controls'.animationSpeed]_vars
    /\ [](controls.animationSpeed \in 50..2000)
    /\ [][Ran("play") => UNCHANGED engine]_vars

\* The loop's second advance, made after the speed had been changed.
C25_Witness ==
    /\ lastOp.op = "frame"
    /\ lastOp.did = "step"
    /\ generation = 2
    /\ controls.animationSpeed = 100
    /\ advanced >= 200

\* The current field after one step() of an engine whose current field is f
\* and whose next buffer holds g.
SteppedFrom(f, g) == step(Constructed(f, g), "A", "B", 0).heap["B"]

\* C26: the field after step() is the one any engine with the same field
\* before the step reaches, whatever its next buffer holds: all dead, all
\* live or the field itself.
C26_StepIgnoresNextBuffer ==
    lastOp.op = "step" =>
        \A g \in {AllDead, AllLive, pre.field} : CurrentField = SteppedFrom(pre.field, g)

\* The second of two successive steps: the buffer it wrote held the
\* populated field of two generations ago, which differs from the result.
C26_Witness ==
    /\ lastOp.op = "step"
    /\ Len(hist) = 2
    /\ Population(hist[1]) > 0
    /\ hist[1] # CurrentField
    /\ heap[nextGrid] = pre.field


====
